---- MODULE Spec2Model ----
(***************************************************************************)
(* compare_pdfs of src/main.py: the object scanner (one pass per file) and *)
(* the three-phase structural differ, as a state machine.                  *)
(*                                                                         *)
(* A byte string is a sequence of one-character strings; a file is the     *)
(* sequence of its lines as iteration over the open file yields them, each *)
(* line ending with its newline.  The two files are indexed 1 (pdf1) and   *)
(* 2 (pdf2); compare_pdfs is called on two distinct paths.                 *)
(***************************************************************************)
EXTENDS Integers, Sequences, FiniteSets, TLC

\* ------------------------------------------------------------------------
\* Bounds of the model
\* ------------------------------------------------------------------------

\* longest file, in lines, of the comparison specifications
MaxLines == 2

\* longest first file, in lines, of the scanner specification
MaxScanLines == 3

\* ------------------------------------------------------------------------
\* Bytes and the byte-string literals of the source
\* ------------------------------------------------------------------------

NL == "\n"

\* a byte that is not valid UTF-8
XFF == "0xFF"

SP == " "

\* str.strip() removes these (of the bytes the model uses)
Whitespace == {SP, NL}

B_obj == <<"o", "b", "j">>

B_endobj == <<"e", "n", "d", "o", "b", "j">>

B_Type == <<"/", "T", "y", "p", "e">>

B_stream == <<"s", "t", "r", "e", "a", "m">>

NoneType == <<"_", "n", "o", "n", "e", "_">>

dont_match_message == "PDFs don't match!"

do_match_message == "PDFs match!"

\* ------------------------------------------------------------------------
\* Input lines
\* ------------------------------------------------------------------------

W_Font == <<"/", "F", "o", "n", "t">>

W_Page == <<"/", "P", "a", "g", "e">>

\* "1 0 obj\n"
L_open == <<"1", SP, "0", SP>> \o B_obj \o <<NL>>

\* ">>\n"
L_x == <<">", ">", NL>>

\* "endobj\n"
L_end == B_endobj \o <<NL>>

\* "/Type /Font\n"
L_font == B_Type \o <<SP>> \o W_Font \o <<NL>>

\* "/Type /Page\n"
L_page == B_Type \o <<SP>> \o W_Page \o <<NL>>

\* "/Type/Font\n": the marker with no second space-separated token
L_bad == B_Type \o W_Font \o <<NL>>

\* "/Type \xff\n": the marker on a line that is not UTF-8
L_xff == B_Type \o <<SP, XFF, NL>>

\* "/Type  /Font\n": two spaces, so the second token of split(" ") is empty
L_type2sp == B_Type \o <<SP, SP>> \o W_Font \o <<NL>>

\* "stream\n"
L_stream == B_stream \o <<NL>>

\* "/Type /Font endobj\n": a whole Font object on one line
L_fontobj == B_Type \o <<SP>> \o W_Font \o <<SP>> \o B_endobj \o <<NL>>

\* "/Type /Page endobj\n"
L_pageobj == B_Type \o <<SP>> \o W_Page \o <<SP>> \o B_endobj \o <<NL>>

\* "endstream endobj\n": a whole stream object on one line
L_streamend == <<"e", "n", "d">> \o B_stream \o <<SP>> \o B_endobj \o <<NL>>

CmpLines == {L_open, L_x, L_end, L_fontobj, L_streamend, L_bad}

ScanLines == {L_open, L_x, L_end, L_font, L_page, L_bad, L_xff, L_type2sp,
              L_stream, L_pageobj, L_streamend}

DocsOver(lines, n) == UNION {[1..k -> lines] : k \in 0..n}

CmpDocs == DocsOver(CmpLines, MaxLines)

ScanDocs == DocsOver(ScanLines, MaxScanLines)

\* second files of the scanner specification: empty, or one plain object
ScanDocs2 == {<<>>, <<L_end>>}

\* ------------------------------------------------------------------------
\* Byte-string functions
\* ------------------------------------------------------------------------

\* sub in s
Contains(sub, s) ==
    \E i \in 0..(Len(s) - Len(sub)) : SubSeq(s, i + 1, i + Len(sub)) = sub

RECURSIVE LStrip(_)
LStrip(s) == IF s # <<>> /\ Head(s) \in Whitespace THEN LStrip(Tail(s)) ELSE s

RECURSIVE RStrip(_)
RStrip(s) ==
    IF s # <<>> /\ s[Len(s)] \in Whitespace
        THEN RStrip(SubSeq(s, 1, Len(s) - 1))
        ELSE s

\* s.strip()
Strip(s) == RStrip(LStrip(s))

\* s.split(sep): one piece more than there are separators, empty pieces kept
RECURSIVE Split(_, _)
Split(s, sep) ==
    IF \A i \in 1..Len(s) : s[i] # sep
        THEN <<s>>
        ELSE LET i == CHOOSE k \in 1..Len(s) :
                          s[k] = sep /\ \A j \in 1..(k - 1) : s[j] # sep
             IN  <<SubSeq(s, 1, i - 1)>> \o Split(SubSeq(s, i + 1, Len(s)), sep)

\* byte_string.decode("utf-8") raises UnicodeDecodeError
DecodeRaises(bs) == \E i \in 1..Len(bs) : bs[i] = XFF

\* byte_string.decode("utf-8") of valid (here: ASCII) bytes
Decode(bs) == bs

\* s[1:]
From1(s) == IF s = <<>> THEN <<>> ELSE Tail(s)

\* the exception line 51 raises on byte_string, "none" when it raises none
ExtractRaises(bs) ==
    IF DecodeRaises(bs) THEN "UnicodeDecodeError"
    ELSE IF Len(Split(Strip(Decode(bs)), SP)) < 2 THEN "IndexError"
    ELSE "none"

\* byte_string.decode("utf-8").strip().split(" ")[1][1:]
ExtractType(bs) == From1(Split(Strip(Decode(bs)), SP)[2])

\* b"\n".join(lines)
RECURSIVE Join(_)
Join(lines) ==
    IF lines = <<>> THEN <<>>
    ELSE IF Len(lines) = 1 THEN lines[1]
    ELSE lines[1] \o <<NL>> \o Join(Tail(lines))

\* ------------------------------------------------------------------------
\* State
\* ------------------------------------------------------------------------

VARIABLES
    pdf,               \* pdf[1], pdf[2]: the lines of the two files
    pc,                \* "scan", "phase1", "phase2", "phase3", "exit", "raised"
    pdf_file,          \* the file being scanned
    line_no,           \* number of the next line enumerate(f) yields
    in_obj,
    cur_obj,
    cur_object_type,
    contains_stream,
    pdf_objs,          \* per file: (line_no, cur_obj, cur_object_type)
    objs_by_type,      \* per file: type -> list of (line_no, joined, stream)
    pdf1_obj_types,
    pdf2_obj_types,
    todo,              \* types the running for loop has still to visit
    dont_match,
    stdout,            \* the lines printed so far
    exit_status,       \* argument of sys.exit, -1 while running
    raised,            \* the uncaught exception, "none" while there is none
    run,               \* 1: compare_pdfs(pdf1, pdf2); 2: the call repeated
    first_status,      \* exit status of run 1 (2: it raised), -1 before
    first_stdout,      \* what run 1 printed, <<>> before
    main               \* the state of the __main__ block, lines 154-184

vars == <<pdf, pc, pdf_file, line_no, in_obj, cur_obj, cur_object_type,
          contains_stream, pdf_objs, objs_by_type, pdf1_obj_types,
          pdf2_obj_types, todo, dont_match, stdout, exit_status, raised,
          run, first_status,
                   first_stdout, main>>

scanVars == <<pdf_file, line_no, in_obj, cur_obj, cur_object_type,
              contains_stream, pdf_objs, objs_by_type>>

diffVars == <<pdf1_obj_types, pdf2_obj_types, todo, dont_match, stdout,
              exit_status>>

\* defaultdict(list): d[k]
Get(d, k) == IF k \in DOMAIN d THEN d[k] ELSE <<>>

\* defaultdict(list): d[k].append(x)
AppendTo(d, k, x) ==
    [j \in DOMAIN d \cup {k} |-> IF j = k THEN Append(Get(d, k), x) ELSE d[j]]

\* defaultdict(list): the key a read of d[k] inserts
Touch(d, k) == [j \in DOMAIN d \cup {k} |-> Get(d, j)]

EmptyDict == [j \in {} |-> <<>>]

\* __main__ is not running: compare_pdfs was called on two files directly
MainIdle == [pc |-> "idle"]

\* lines 26-39: the state when the scan of the first file begins
Start(files) ==
    /\ pdf = files
    /\ pc = "scan"
    /\ pdf_file = 1
    /\ line_no = 0
    /\ in_obj = FALSE
    /\ cur_obj = <<>>
    /\ cur_object_type = <<>>
    /\ contains_stream = FALSE
    /\ pdf_objs = <<<<>>, <<>>>>
    /\ objs_by_type = <<EmptyDict, EmptyDict>>
    /\ pdf1_obj_types = {}
    /\ pdf2_obj_types = {}
    /\ todo = {}
    /\ dont_match = FALSE
    /\ stdout = <<>>
    /\ exit_status = -1
    /\ raised = "none"
    /\ run = 1
    /\ first_status = -1
    /\ first_stdout = <<>>
    /\ main = MainIdle

Init == \E a \in CmpDocs, b \in CmpDocs : Start(<<a, b>>)

InitScan == \E a \in ScanDocs, b \in ScanDocs2 : Start(<<a, b>>)

\* ------------------------------------------------------------------------
\* The scanner: lines 34-69
\* ------------------------------------------------------------------------

\* line 43 without the test of in_obj
OpensAlways(byte_string, inside) == Contains(B_obj, byte_string)

\* line 43 testing for obj apart from endobj
OpensStrict(byte_string, inside) ==
    Contains(B_obj, byte_string) /\ ~Contains(B_endobj, byte_string) /\ ~inside

\* line 43: the line opens an object
Opens(byte_string, inside) == Contains(B_obj, byte_string) /\ ~inside

\* lines 49-52 with the first type kept: a type is recorded only while none is
TypeAfterFirstWins(byte_string, pending) ==
    IF Contains(B_Type, byte_string) /\ pending = <<>>
        THEN ExtractType(byte_string)
        ELSE pending

\* lines 49-52: the pending type after a line read inside an object
TypeAfter(byte_string, pending) ==
    IF Contains(B_Type, byte_string) THEN ExtractType(byte_string) ELSE pending

\* lines 54-55 assigning the test of the line to the flag
StreamAfterLineOnly(byte_string, flag) == Contains(B_stream, byte_string)

\* lines 54-55
StreamAfter(byte_string, flag) == flag \/ Contains(B_stream, byte_string)

\* lines 60-61
ClosedType(pending) == IF pending = <<>> THEN NoneType ELSE pending

\* line 63 recording the line that opened the object
ObjEntryOpenLine(n, body, type) == <<n - Len(body) + 1, body, type>>

\* line 63: the entry of pdf_objs
ObjEntry(n, body, type) == <<n, body, type>>

\* line 65 with the line number left out of the triple
TypeEntryNoLine(n, body, stream) == <<0, Join(body), stream>>

\* line 65: the entry of objs_by_type
TypeEntry(n, body, stream) == <<n, Join(body), stream>>

\* the line the loop of line 41 is about to read
CurLine == pdf[pdf_file][line_no + 1]

\* line 47 without the test of in_obj
InsideAlways == TRUE

\* lines 43-48: in_obj and cur_obj after the head of the loop body
InsideNow == in_obj \/ Opens(CurLine, in_obj)

BodyNow ==
    IF ~InsideNow THEN cur_obj
    ELSE IF Opens(CurLine, in_obj) THEN <<CurLine>>
    ELSE Append(cur_obj, CurLine)

\* line 184 passed one path twice: pdf1 and pdf2 are then the same key of
\* pdf_objs and objs_by_type
SamePath ==
    /\ main.pc \in {"called", "done"}
    /\ main.pdf1_uncompressed = main.pdf2_uncompressed

\* lines 63-64: table f is the one pdf_objs[pdf_file] names
KeyOf(f) == f = pdf_file \/ SamePath

\* line 49-52 raises on the current line
LineRaises ==
    IF InsideNow /\ Contains(B_Type, CurLine) THEN ExtractRaises(CurLine)
    ELSE "none"

\* lines 41-69: one iteration of the loop over the lines of a file
ScanLine ==
    /\ pc = "scan"
    /\ line_no < Len(pdf[pdf_file])
    /\ LineRaises = "none"
    /\ LET byte_string == CurLine
           inside == InsideNow
           body == BodyNow
           type == IF inside THEN TypeAfter(byte_string, cur_object_type)
                   ELSE cur_object_type
           stream == IF inside THEN StreamAfter(byte_string, contains_stream)
                     ELSE contains_stream
       IN  IF Contains(B_endobj, byte_string)
             THEN /\ in_obj' = FALSE
                  /\ pdf_objs' = [f \in 1..2 |->
                        IF KeyOf(f)
                          THEN Append(pdf_objs[f],
                                      ObjEntry(line_no, body, ClosedType(type)))
                          ELSE pdf_objs[f]]
                  /\ objs_by_type' = [f \in 1..2 |->
                        IF KeyOf(f)
                          THEN AppendTo(objs_by_type[f], ClosedType(type),
                                        TypeEntry(line_no, body, stream))
                          ELSE objs_by_type[f]]
                  /\ cur_obj' = <<>>
                  /\ cur_object_type' = <<>>
                  /\ contains_stream' = FALSE
             ELSE /\ in_obj' = inside
                  /\ cur_obj' = body
                  /\ cur_object_type' = type
                  /\ contains_stream' = stream
                  /\ UNCHANGED <<pdf_objs, objs_by_type>>
    /\ line_no' = line_no + 1
    /\ UNCHANGED <<pdf, pc, pdf_file, raised, run, first_status,
                   first_stdout, main>>
    /\ UNCHANGED diffVars

\* lines 43-52: the iteration in which line 51 raises; nothing catches it
ScanRaise ==
    /\ pc = "scan"
    /\ line_no < Len(pdf[pdf_file])
    /\ LineRaises # "none"
    /\ in_obj' = InsideNow
    /\ cur_obj' = BodyNow
    /\ raised' = LineRaises
    /\ pc' = "raised"
    /\ UNCHANGED <<pdf, pdf_file, line_no, cur_object_type, contains_stream,
                   pdf_objs, objs_by_type, run, first_status,
                   first_stdout, main>>
    /\ UNCHANGED diffVars

\* lines 34-39: a file is exhausted; the next one is opened with fresh locals,
\* or the scans are over
ScanEOF ==
    /\ pc = "scan"
    /\ line_no = Len(pdf[pdf_file])
    /\ IF pdf_file = 1
         THEN /\ pdf_file' = 2
              /\ line_no' = 0
              /\ in_obj' = FALSE
              /\ cur_obj' = <<>>
              /\ cur_object_type' = <<>>
              /\ contains_stream' = FALSE
              /\ pc' = "scan"
         ELSE /\ pc' = "phase1"
              /\ UNCHANGED <<pdf_file, line_no, in_obj, cur_obj,
                             cur_object_type, contains_stream>>
    /\ UNCHANGED <<pdf, pdf_objs, objs_by_type, raised, run, first_status,
                   first_stdout, main>>
    /\ UNCHANGED diffVars

NextScan == ScanLine \/ ScanRaise \/ ScanEOF

SpecScan == InitScan /\ [][NextScan]_vars

\* ------------------------------------------------------------------------
\* What print writes: one record per printed line
\* ------------------------------------------------------------------------

\* side is the file a line is about: printed in the lines of lines 81, 86,
\* 106 and 119, given by the heading above for the lines of lines 111-127
Line(kind, side, types, n, at, obj, obj2, text) ==
    [kind |-> kind, side |-> side, types |-> types, n |-> n, line_no |-> at,
     obj |-> obj, obj2 |-> obj2, text |-> text]

\* lines 81, 86: "pdfN has object type(s) '<types joined>' that pdfM doesn't have"
TypesLine(side, order) == Line("types", side, order, 0, 0, <<>>, <<>>, "")

\* lines 106, 119: "pdfN has <n> different <obj_type> object(s)"
CountLine(side, n, obj_type) ==
    Line("count", side, <<obj_type>>, n, 0, <<>>, <<>>, "")

\* lines 111, 124: "- object with stream, line_no=, len_bytes(object)="
StreamLine(side, x) == Line("stream", side, <<>>, Len(x[2]), x[1], <<>>, <<>>, "")

\* lines 114, 127: "- line_no=, obj="
ObjLine(side, x) == Line("obj", side, <<>>, 0, x[1], x[2], <<>>, "")

\* line 144: "Object <z1[1]> and <z2[1]> don't match"
NoMatchLine(z1, z2) == Line("nomatch", 0, <<>>, 0, 0, z1[2], z2[2], "")

\* lines 90, 130, 147, 150
MessageLine(text) == Line("message", 0, <<>>, 0, 0, <<>>, <<>>, text)

\* ------------------------------------------------------------------------
\* The differ: lines 72-151
\* ------------------------------------------------------------------------

\* set(list)
ToSet(list) == {list[i] : i \in 1..Len(list)}

\* the orders in which iteration over a set can yield its elements
Orders(S) ==
    {o \in [1..Cardinality(S) -> S] :
        \A i, j \in 1..Cardinality(S) : i # j => o[i] # o[j]}

\* lines 72-73
TypesOf(objs) == {objs[i][3] : i \in 1..Len(objs)}

\* lines 75-76, 100-101 with the operands exchanged
MinusSwapped(a, b) == b \ a

\* lines 75-76, 100-101: a - b
Minus(a, b) == a \ b

\* lines 78-87 without line 84
Phase1FlagPdf1Only(in1, in2) == in1 # {}

\* lines 78-87, 89: dont_match after phase 1
Phase1Flag(in1, in2) == in1 # {} \/ in2 # {}

\* line 89 without the exit
Phase1NeverStops(flag) == FALSE

\* line 89: phase 1 ends the run
Phase1Stops(flag) == flag

\* lines 103-104, 116-117 without line 117
Phase2FlagPdf1Only(flag, in1, in2) == flag \/ in1 # {}

\* lines 103-104, 116-117 assigning the flag anew for each type
Phase2FlagReset(flag, in1, in2) == in1 # {} \/ in2 # {}

\* lines 103-104, 116-117: dont_match after one type of phase 2
Phase2Flag(flag, in1, in2) == flag \/ in1 # {} \/ in2 # {}

\* lines 106, 119: len(in_set1_but_not_set2)
CountOf(in_set) == Cardinality(in_set)

\* lines 109-114 without the test of x[2]
RenderObjRaw(side, x) == ObjLine(side, x)

\* lines 109-114, 122-127
RenderObj(side, x) == IF x[3] THEN StreamLine(side, x) ELSE ObjLine(side, x)

\* lines 96, 129 with the test of line 129 moved into the loop
Phase2LeavesOnMismatch(remaining, flag) == remaining = {} \/ flag

\* lines 96, 129: the loop is left, and the flag first read, only when every
\* type has been visited
Phase2Leaves(remaining, flag) == remaining = {}

\* lines 103-114, 116-127: what one side prints for one type
Block(side, obj_type, in_set, order) ==
    IF in_set = {} THEN <<>>
    ELSE <<CountLine(side, CountOf(in_set), obj_type)>>
         \o [i \in 1..Len(order) |-> RenderObj(side, order[i])]

\* sorted(list, key=lambda x: x[0]): stable
RECURSIVE SortedByLine(_)
SortedByLine(s) ==
    IF Len(s) <= 1 THEN s
    ELSE LET r == SortedByLine(SubSeq(s, 1, Len(s) - 1))
             x == s[Len(s)]
             k == Cardinality({i \in 1..Len(r) : r[i][1] <= x[1]})
         IN  SubSeq(r, 1, k) \o <<x>> \o SubSeq(r, k + 1, Len(r))

\* zip(a, b)
Zip(a, b) ==
    [i \in 1..(IF Len(a) <= Len(b) THEN Len(a) ELSE Len(b)) |-> <<a[i], b[i]>>]

\* lines 142-144: what the pairs of one type print
RECURSIVE Phase3Lines(_)
Phase3Lines(zipped) ==
    IF zipped = <<>> THEN <<>>
    ELSE (IF zipped[1][1][1] # zipped[1][2][1]
            THEN <<NoMatchLine(zipped[1][1], zipped[1][2])>>
            ELSE <<>>)
         \o Phase3Lines(Tail(zipped))

\* lines 90-91, 130-131, 147-148
ExitDontMatch(out) ==
    /\ stdout' = out \o <<MessageLine(dont_match_message)>>
    /\ exit_status' = 1
    /\ pc' = "exit"

\* lines 150-151
ExitDoMatch(out) ==
    /\ stdout' = out \o <<MessageLine(do_match_message)>>
    /\ exit_status' = 0
    /\ pc' = "exit"

\* lines 72-91
Phase1 ==
    /\ pc = "phase1"
    /\ LET t1 == TypesOf(pdf_objs[1])
           t2 == TypesOf(pdf_objs[2])
           in_pdf1_but_not_pdf2 == Minus(t1, t2)
           in_pdf2_but_not_pdf1 == Minus(t2, t1)
           flag == Phase1Flag(in_pdf1_but_not_pdf2, in_pdf2_but_not_pdf1)
       IN  /\ pdf1_obj_types' = t1
           /\ pdf2_obj_types' = t2
           /\ dont_match' = flag
           /\ \E o1 \in Orders(in_pdf1_but_not_pdf2),
                 o2 \in Orders(in_pdf2_but_not_pdf1) :
                LET out == stdout
                        \o (IF in_pdf1_but_not_pdf2 # {}
                              THEN <<TypesLine(1, o1)>> ELSE <<>>)
                        \o (IF in_pdf2_but_not_pdf1 # {}
                              THEN <<TypesLine(2, o2)>> ELSE <<>>)
                IN  IF Phase1Stops(flag)
                      THEN /\ ExitDontMatch(out)
                           /\ todo' = {}
                      ELSE /\ stdout' = out
                           /\ pc' = "phase2"
                           /\ todo' = t1
                           /\ UNCHANGED exit_status
    /\ UNCHANGED <<pdf, raised, run, first_status,
                   first_stdout, main>>
    /\ UNCHANGED scanVars

\* lines 96-127: one iteration of the loop over pdf1_obj_types
Phase2Type ==
    /\ pc = "phase2"
    /\ ~Phase2Leaves(todo, dont_match)
    /\ \E obj_type \in todo :
         LET set1 == ToSet(Get(objs_by_type[1], obj_type))
             set2 == ToSet(Get(objs_by_type[2], obj_type))
             in_set1_but_not_set2 == Minus(set1, set2)
             in_set2_but_not_set1 == Minus(set2, set1)
         IN  /\ \E o1 \in Orders(in_set1_but_not_set2),
                   o2 \in Orders(in_set2_but_not_set1) :
                  stdout' = stdout
                      \o Block(1, obj_type, in_set1_but_not_set2, o1)
                      \o Block(2, obj_type, in_set2_but_not_set1, o2)
             /\ dont_match' = Phase2Flag(dont_match, in_set1_but_not_set2,
                                         in_set2_but_not_set1)
             /\ objs_by_type' = <<Touch(objs_by_type[1], obj_type),
                                  Touch(objs_by_type[2], obj_type)>>
             /\ todo' = todo \ {obj_type}
    /\ UNCHANGED <<pdf, pc, pdf_file, line_no, in_obj, cur_obj,
                   cur_object_type, contains_stream, pdf_objs,
                   pdf1_obj_types, pdf2_obj_types, exit_status, raised, run,
                   first_status,
                   first_stdout, main>>

\* lines 129-131, reached when the loop of line 96 is over
Phase2Exit ==
    /\ pc = "phase2"
    /\ Phase2Leaves(todo, dont_match)
    /\ IF dont_match
         THEN /\ ExitDontMatch(stdout)
              /\ UNCHANGED todo
         ELSE /\ pc' = "phase3"
              /\ todo' = pdf1_obj_types
              /\ UNCHANGED <<stdout, exit_status>>
    /\ UNCHANGED <<pdf, pdf1_obj_types, pdf2_obj_types, dont_match, raised,
                   run, first_status,
                   first_stdout, main>>
    /\ UNCHANGED scanVars

\* lines 136-144: one iteration of the loop over pdf1_obj_types
Phase3Type ==
    /\ pc = "phase3"
    /\ \E obj_type \in todo :
         LET zipped_objs ==
                 Zip(SortedByLine(Get(objs_by_type[1], obj_type)),
                     SortedByLine(Get(objs_by_type[2], obj_type)))
             out == Phase3Lines(zipped_objs)
         IN  /\ stdout' = stdout \o out
             /\ dont_match' = (dont_match \/ out # <<>>)
             /\ objs_by_type' = <<Touch(objs_by_type[1], obj_type),
                                  Touch(objs_by_type[2], obj_type)>>
             /\ todo' = todo \ {obj_type}
    /\ UNCHANGED <<pdf, pc, pdf_file, line_no, in_obj, cur_obj,
                   cur_object_type, contains_stream, pdf_objs,
                   pdf1_obj_types, pdf2_obj_types, exit_status, raised, run,
                   first_status,
                   first_stdout, main>>

\* lines 146-151, reached when the loop of line 136 is over
Phase3Exit ==
    /\ pc = "phase3"
    /\ todo = {}
    /\ IF dont_match THEN ExitDontMatch(stdout) ELSE ExitDoMatch(stdout)
    /\ UNCHANGED <<pdf, pdf1_obj_types, pdf2_obj_types, todo, dont_match,
                   raised, run, first_status,
                   first_stdout, main>>
    /\ UNCHANGED scanVars

Next ==
    \/ ScanLine
    \/ ScanRaise
    \/ ScanEOF
    \/ Phase1
    \/ Phase2Type
    \/ Phase2Exit
    \/ Phase3Type
    \/ Phase3Exit

Spec == Init /\ [][Next]_vars

\* lines 25-39: compare_pdfs is entered on two files
Enter(files) ==
    /\ pdf' = files
    /\ pc' = "scan"
    /\ pdf_file' = 1
    /\ line_no' = 0
    /\ in_obj' = FALSE
    /\ cur_obj' = <<>>
    /\ cur_object_type' = <<>>
    /\ contains_stream' = FALSE
    /\ pdf_objs' = <<<<>>, <<>>>>
    /\ objs_by_type' = <<EmptyDict, EmptyDict>>
    /\ pdf1_obj_types' = {}
    /\ pdf2_obj_types' = {}
    /\ todo' = {}
    /\ dont_match' = FALSE
    /\ stdout' = <<>>
    /\ exit_status' = -1
    /\ raised' = "none"

\* line 25: compare_pdfs called once more, on the same two files swapped
SwapRun ==
    /\ run = 1
    /\ pc \in {"exit", "raised"}
    /\ first_status' = (IF pc = "raised" THEN 2 ELSE exit_status)
    /\ first_stdout' = stdout
    /\ run' = 2
    /\ Enter(<<pdf[2], pdf[1]>>)
    /\ UNCHANGED main

NextSwap == Next \/ SwapRun

SpecSwap == Init /\ [][NextSwap]_vars

\* line 25: compare_pdfs called once more, on the same two files
Rerun ==
    /\ run = 1
    /\ pc \in {"exit", "raised"}
    /\ first_status' = (IF pc = "raised" THEN 2 ELSE exit_status)
    /\ first_stdout' = stdout
    /\ run' = 2
    /\ Enter(pdf)
    /\ UNCHANGED main

NextTwice == Next \/ Rerun

SpecTwice == Init /\ [][NextTwice]_vars

\* lines 72-151: the steps of the differ
Differ == Phase1 \/ Phase2Type \/ Phase2Exit \/ Phase3Type \/ Phase3Exit

\* the differ is straight-line sequential code: once entered it runs on
FairSpec == Spec /\ WF_vars(Differ)

\* ------------------------------------------------------------------------
\* The __main__ block, lines 154-184, and uncompress_pdf, lines 13-22
\* ------------------------------------------------------------------------

\* most command-line arguments after the program name
MaxArgs == 3

\* ".pdf" and "-unc.pdf" of lines 170, 173
Ext_pdf == <<".", "p", "d", "f">>

Unc_pdf == <<"-", "u", "n", "c">> \o Ext_pdf

Slash == "/"

\* the directory tempfile.TemporaryDirectory() makes: new, so that no input
\* path lies in it
TempDir == <<Slash, "t">>

\* "x/a.pdf", "y/a.pdf", "x/b.pdf" and "x/a"
P_xa == <<"x", Slash, "a">> \o Ext_pdf

P_ya == <<"y", Slash, "a">> \o Ext_pdf

P_xb == <<"x", Slash, "b">> \o Ext_pdf

P_noext == <<"x", Slash, "a">>

Paths == {P_xa, P_ya, P_xb, P_noext}

ArgLists == UNION {[1..k -> Paths] : k \in 0..MaxArgs}

\* what pdftk writes for an input file: one Font object, the same object
\* after a line of its own, an untyped object, an object whose /Type line
\* has no space
MainDocs == {<<L_fontobj>>, <<L_open, L_fontobj>>, <<L_end>>,
             <<L_open, L_bad>>}

\* os.path.basename: what follows the last slash
Basename(p) ==
    LET slashes == {i \in 1..Len(p) : p[i] = Slash}
    IN  IF slashes = {} THEN p
        ELSE SubSeq(p, (CHOOSE i \in slashes : \A j \in slashes : j <= i) + 1,
                    Len(p))

RECURSIVE ReplaceFrom(_, _, _, _)
\* str.replace from position i on: every occurrence, left to right
ReplaceFrom(str, i, old, new) ==
    IF i > Len(str) THEN <<>>
    ELSE IF /\ i + Len(old) - 1 <= Len(str)
            /\ SubSeq(str, i, i + Len(old) - 1) = old
        THEN new \o ReplaceFrom(str, i + Len(old), old, new)
        ELSE <<str[i]>> \o ReplaceFrom(str, i + 1, old, new)

\* str.replace(old, new)
Replace(str, old, new) == ReplaceFrom(str, 1, old, new)

\* os.path.join(a, b)
PathJoin(a, b) ==
    IF b # <<>> /\ b[1] = Slash THEN b
    ELSE IF a = <<>> \/ a[Len(a)] = Slash THEN a \o b
    ELSE a \o <<Slash>> \o b

\* lines 169-174: the path the uncompressed copy of p is written to
UncompressedPath(temp_dir, p) ==
    PathJoin(temp_dir, Replace(Basename(p), Ext_pdf, Unc_pdf))

\* a file: the input path it was made from (<<>> for an input file) and the
\* lines of its uncompressed form
FileOf(from, lines) == [from |-> from, lines |-> lines]

\* lines 16-18: pdftk has written the uncompressed input to the output path
Written(fs, input_pdf_path, output_pdf_path) ==
    [p \in DOMAIN fs \cup {output_pdf_path} |->
        IF p = output_pdf_path
            THEN FileOf(input_pdf_path, fs[input_pdf_path].lines)
            ELSE fs[p]]

InDir(p, dir) ==
    /\ Len(p) > Len(dir)
    /\ SubSeq(p, 1, Len(dir)) = dir
    /\ p[Len(dir) + 1] = Slash

\* line 168: leaving the with block removes the directory and its files
Removed(fs, dir) == [p \in {q \in DOMAIN fs : ~InDir(q, dir)} |-> fs[p]]

\* a line printed by the __main__ block or by uncompress_pdf
MainLine(text, path) == [text |-> text, path |-> path]

\* compare_pdfs has not been called
NotCalled ==
    /\ pdf = <<<<>>, <<>>>>
    /\ pc = "idle"
    /\ pdf_file = 1
    /\ line_no = 0
    /\ in_obj = FALSE
    /\ cur_obj = <<>>
    /\ cur_object_type = <<>>
    /\ contains_stream = FALSE
    /\ pdf_objs = <<<<>>, <<>>>>
    /\ objs_by_type = <<EmptyDict, EmptyDict>>
    /\ pdf1_obj_types = {}
    /\ pdf2_obj_types = {}
    /\ todo = {}
    /\ dont_match = FALSE
    /\ stdout = <<>>
    /\ exit_status = -1
    /\ raised = "none"
    /\ run = 1
    /\ first_status = -1
    /\ first_stdout = <<>>

\* line 154: the program starts with its arguments and the files they name
InitMain ==
    \E argv \in ArgLists : \E disk \in [ToSet(argv) -> MainDocs] :
        /\ main = [pc |-> "start", argv |-> argv,
                   fs |-> [p \in ToSet(argv) |-> FileOf(<<>>, disk[p])],
                   pdf1 |-> <<>>, pdf2 |-> <<>>,
                   pdf1_uncompressed |-> <<>>, pdf2_uncompressed |-> <<>>,
                   out |-> <<>>, status |-> -1]
        /\ NotCalled

cmpVars == <<pdf, pc, pdf_file, line_no, in_obj, cur_obj, cur_object_type,
             contains_stream, pdf_objs, objs_by_type, pdf1_obj_types,
             pdf2_obj_types, todo, dont_match, stdout, exit_status, raised>>

\* lines 13-22: pdftk ends with status 0 (ok) and the output is written, or
\* it does not, the failure is printed and the program exits with status 1
uncompress_pdf(m, input_pdf_path, output_pdf_path, ok) ==
    IF ok
        THEN [m EXCEPT !.fs = Written(@, input_pdf_path, output_pdf_path)]
        ELSE [m EXCEPT !.out = Append(@, MainLine("Failed to uncompress",
                                                  input_pdf_path)),
                       !.status = 1,
                       !.pc = "exit",
                       !.fs = Removed(@, TempDir)]

\* lines 155-162
MainArgs ==
    /\ main.pc = "start"
    /\ IF Len(main.argv) # 2
         THEN main' = [main EXCEPT !.out = Append(@, MainLine("Usage", <<>>)),
                                   !.status = 1,
                                   !.pc = "exit"]
         ELSE main' = [main EXCEPT !.pdf1 = main.argv[1],
                                   !.pdf2 = main.argv[2],
                                   !.pc = "paths"]
    /\ UNCHANGED <<cmpVars, run, first_status, first_stdout>>

\* lines 168-174
MainPaths ==
    /\ main.pc = "paths"
    /\ main' = [main EXCEPT
            !.pdf1_uncompressed = UncompressedPath(TempDir, main.pdf1),
            !.pdf2_uncompressed = UncompressedPath(TempDir, main.pdf2),
            !.pc = "unc1"]
    /\ UNCHANGED <<cmpVars, run, first_status, first_stdout>>

\* line 177
MainUncompress1 ==
    /\ main.pc = "unc1"
    /\ \E ok \in BOOLEAN :
          LET m == uncompress_pdf(main, main.pdf1, main.pdf1_uncompressed, ok)
          IN  main' = IF ok THEN [m EXCEPT !.pc = "unc2"] ELSE m
    /\ UNCHANGED <<cmpVars, run, first_status, first_stdout>>

\* line 178
MainUncompress2 ==
    /\ main.pc = "unc2"
    /\ \E ok \in BOOLEAN :
          LET m == uncompress_pdf(main, main.pdf2, main.pdf2_uncompressed, ok)
          IN  main' = IF ok THEN [m EXCEPT !.pc = "call"] ELSE m
    /\ UNCHANGED <<cmpVars, run, first_status, first_stdout>>

\* lines 180-184: compare_pdfs is entered on the two files as they are now
MainCall ==
    /\ main.pc = "call"
    /\ main' = [main EXCEPT
            !.out = @ \o <<MainLine("pdf1=", main.pdf1),
                           MainLine("pdf2=", main.pdf2),
                           MainLine("", <<>>)>>,
            !.pc = "called"]
    /\ Enter(<<main.fs[main.pdf1_uncompressed].lines,
               main.fs[main.pdf2_uncompressed].lines>>)
    /\ UNCHANGED <<run, first_status, first_stdout>>

\* line 168: sys.exit or the exception of compare_pdfs leaves the with block
MainExit ==
    /\ main.pc = "called"
    /\ pc \in {"exit", "raised"}
    /\ main' = [main EXCEPT !.fs = Removed(@, TempDir),
                            !.status = IF pc = "raised" THEN 1
                                       ELSE exit_status,
                            !.pc = "done"]
    /\ UNCHANGED <<cmpVars, run, first_status, first_stdout>>

NextMain ==
    \/ MainArgs
    \/ MainPaths
    \/ MainUncompress1
    \/ MainUncompress2
    \/ MainCall
    \/ MainExit
    \/ Next

SpecMain == InitMain /\ [][NextMain]_vars


\* ------------------------------------------------------------------------
\* Vocabulary of the properties
\* ------------------------------------------------------------------------

Terminated == pc \in {"exit", "raised"}

\* the diagnostic lines printed so far (everything but the final message)
Report == SelectSeq(stdout, LAMBDA l : l.kind # "message")

Messages == SelectSeq(stdout, LAMBDA l : l.kind = "message")

MatchOutcome ==
    /\ pc = "exit"
    /\ exit_status = 0
    /\ Messages = <<MessageLine(do_match_message)>>
    /\ stdout[Len(stdout)] = MessageLine(do_match_message)

MismatchOutcome ==
    /\ pc = "exit"
    /\ exit_status = 1
    /\ Messages = <<MessageLine(dont_match_message)>>
    /\ stdout[Len(stdout)] = MessageLine(dont_match_message)

\* the declared types of the objects scanned from file f
DeclaredTypes(f) == {pdf_objs[f][i][3] : i \in 1..Len(pdf_objs[f])}

\* the (start_line, raw_content, has_stream) triples of type t of file f
Triples(f, t) ==
    IF t \in DOMAIN objs_by_type[f]
        THEN {objs_by_type[f][t][i] : i \in 1..Len(objs_by_type[f][t])}
        ELSE {}

AllTriples(f) == UNION {Triples(f, t) : t \in DOMAIN objs_by_type[f]}

SameTypeSets == DeclaredTypes(1) = DeclaredTypes(2)

SameTriples ==
    \A t \in DeclaredTypes(1) \cup DeclaredTypes(2) : Triples(1, t) = Triples(2, t)

\* the lines of an object body that contain the /Type marker
TypeLines(body) == {k \in 1..Len(body) : Contains(B_Type, body[k])}

Least(S) == CHOOSE k \in S : \A j \in S : k <= j

Greatest(S) == CHOOSE k \in S : \A j \in S : j <= k

\* ------------------------------------------------------------------------
\* C1
\* ------------------------------------------------------------------------

\* C1 (as claimed): whenever the two files hold the same lines, the run
\* prints no diagnostic line, does not fail, and if it has exited it has
\* exited with the match message and status 0.
C1_Idempotence ==
    pdf[1] = pdf[2] =>
        /\ Report = <<>>
        /\ pc # "raised"
        /\ pc = "exit" => MatchOutcome

\* ------------------------------------------------------------------------
\* C2
\* ------------------------------------------------------------------------

\* C2: when the run has exited, it has exited with the match outcome if and
\* only if the two files have the same set of declared types and, for every
\* type, the same set of (start_line, raw_content, has_stream) triples;
\* otherwise it has exited with the mismatch outcome.
C2_VerdictCorrect ==
    pc = "exit" =>
        /\ MatchOutcome <=> (SameTypeSets /\ SameTriples)
        /\ MismatchOutcome <=> ~(SameTypeSets /\ SameTriples)

\* a mismatch exit of two files with equal type sets in which two objects of
\* one type have the same start_line and differ in raw_content only
C2_Witness ==
    /\ MismatchOutcome
    /\ SameTypeSets
    /\ \E t \in DeclaredTypes(1) :
         \E x \in Triples(1, t), y \in Triples(2, t) :
            x[1] = y[1] /\ x[3] = y[3] /\ x[2] # y[2]

\* ------------------------------------------------------------------------
\* C3
\* ------------------------------------------------------------------------

\* C3: when the call on the swapped files has ended, it has ended with exit
\* status 0 if and only if the first call ended with exit status 0.
C3_Symmetry ==
    (run = 2 /\ Terminated) =>
        ((pc = "exit" /\ exit_status = 0) <=> (first_status = 0))

\* the swapped call has ended with a mismatch that only one side shows:
\* every diagnostic is about the second file
C3_Witness ==
    /\ run = 2
    /\ MismatchOutcome
    /\ first_status = 1
    /\ Report # <<>>
    /\ \A i \in 1..Len(Report) : Report[i].side = 2

\* ------------------------------------------------------------------------
\* C4
\* ------------------------------------------------------------------------

\* C4: once both files are scanned and their sets of declared types differ,
\* the run is either about to run phase 1 or has exited with the mismatch
\* outcome, and every diagnostic line printed is a type-set line.
C4_ShortCircuit ==
    (pc \notin {"scan", "raised"} /\ ~SameTypeSets) =>
        /\ pc = "phase1" \/ MismatchOutcome
        /\ \A i \in 1..Len(Report) : Report[i].kind = "types"

\* a mismatch exit of two files whose type sets differ while both have objects
C4_Witness ==
    /\ MismatchOutcome
    /\ ~SameTypeSets
    /\ DeclaredTypes(1) # {}
    /\ DeclaredTypes(2) # {}
    /\ Report # <<>>

\* ------------------------------------------------------------------------
\* C5
\* ------------------------------------------------------------------------

\* C5: no printed line carries the raw_content of an object with a stream;
\* a line that prints a raw_content is about an object without a stream of
\* its file, and a line printed for an object with a stream gives that
\* object's line number and the length of its raw_content.
C5_StreamRedaction ==
    \A i \in 1..Len(stdout) :
        LET l == stdout[i]
        IN  /\ \A f \in 1..2 : \A x \in AllTriples(f) :
                  x[3] => (l.obj # x[2] /\ l.obj2 # x[2])
            /\ l.kind = "obj" =>
                  \E x \in AllTriples(l.side) :
                      ~x[3] /\ x[1] = l.line_no /\ x[2] = l.obj
            /\ l.kind = "stream" =>
                  \E x \in AllTriples(l.side) :
                      x[3] /\ x[1] = l.line_no /\ Len(x[2]) = l.n

\* a differing object with a stream has been reported
C5_Witness ==
    /\ MismatchOutcome
    /\ \E i \in 1..Len(stdout) : stdout[i].kind = "stream"

\* ------------------------------------------------------------------------
\* C6
\* ------------------------------------------------------------------------

\* C6 (as claimed): the scan of readable files never ends in a failure.
C6_ScannerNeverFails == pc # "raised"

\* ------------------------------------------------------------------------
\* C7
\* ------------------------------------------------------------------------

\* C7: from two scanned files the run eventually exits; an exited run shows
\* exactly one of the match outcome and the mismatch outcome; the match
\* outcome comes with no diagnostic line; the differ raises nothing.
C7_DefinitiveVerdict ==
    /\ (pc = "phase1") ~> (pc = "exit")
    /\ [](pc = "exit" =>
            /\ MatchOutcome # MismatchOutcome
            /\ MatchOutcome => Report = <<>>)
    /\ [](pc \in {"phase1", "phase2", "phase3", "exit"} => raised = "none")

\* a mismatch exit reached through phases 1 and 2
C7_Witness ==
    /\ MismatchOutcome
    /\ \E i \in 1..Len(Report) : Report[i].kind = "count"

\* ------------------------------------------------------------------------
\* C8
\* ------------------------------------------------------------------------

\* number of objects of type t of file f
NumberOf(f, t) == Len(Get(objs_by_type[f], t))

\* C8 (as claimed): at the exit of two files with equal type sets, for every
\* type of which pdf1 has 2 objects and pdf2 has 1, the outcome is mismatch
\* and phase 2 has reported exactly 1 differing object of the type for pdf1.
C8_Original ==
    (pc = "exit" /\ SameTypeSets) =>
        \A t \in DeclaredTypes(1) :
            (NumberOf(1, t) = 2 /\ NumberOf(2, t) = 1) =>
                /\ MismatchOutcome
                /\ \E i \in 1..Len(stdout) : stdout[i] = CountLine(1, 1, t)

\* C8 (amended): at the exit of two files with equal type sets, for every
\* type of which pdf1 has 2 objects and pdf2 has 1, the outcome is mismatch
\* and phase 2 has reported for pdf1 the number of its triples of the type
\* that pdf2 lacks: 1 when the triple of pdf2 is one of pdf1's, 2 otherwise.
C8_TwoAgainstOne ==
    (pc = "exit" /\ SameTypeSets) =>
        \A t \in DeclaredTypes(1) :
            (NumberOf(1, t) = 2 /\ NumberOf(2, t) = 1) =>
                LET n == IF Triples(2, t) \subseteq Triples(1, t) THEN 1 ELSE 2
                IN  /\ MismatchOutcome
                    /\ \E i \in 1..Len(stdout) : stdout[i] = CountLine(1, n, t)
                    /\ \A i \in 1..Len(stdout) :
                          (/\ stdout[i].kind = "count"
                           /\ stdout[i].side = 1
                           /\ stdout[i].types = <<t>>) => stdout[i].n = n

\* pdf1 has 2 objects of a type, pdf2 has 1, which is one of pdf1's: 1 reported
C8_Witness ==
    /\ pc = "exit"
    /\ SameTypeSets
    /\ \E t \in DeclaredTypes(1) :
          /\ NumberOf(1, t) = 2
          /\ NumberOf(2, t) = 1
          /\ Triples(2, t) \subseteq Triples(1, t)
          /\ \E i \in 1..Len(stdout) : stdout[i] = CountLine(1, 1, t)

\* ------------------------------------------------------------------------
\* C9
\* ------------------------------------------------------------------------

C10_StartLine ==
    \A f \in 1..2 :
        /\ \A i \in 1..Len(pdf_objs[f]) :
              LET o == pdf_objs[f][i]
              IN  /\ o[1] \in 0..(Len(pdf[f]) - 1)
                  /\ Contains(B_endobj, pdf[f][o[1] + 1])
                  /\ o[2][Len(o[2])] = pdf[f][o[1] + 1]
                  /\ i > 1 => pdf_objs[f][i - 1][1] < o[1]
                  /\ \E x \in Triples(f, o[3]) :
                        x[1] = o[1] /\ x[2] = Join(o[2])
        /\ Cardinality(AllTriples(f)) = Len(pdf_objs[f])
        /\ \A x, y \in AllTriples(f) : x[1] = y[1] => x = y

\* two objects emitted from one file, one of them of several lines
C10_Witness ==
    \E f \in 1..2 :
        /\ Len(pdf_objs[f]) >= 2
        /\ \E i \in 1..Len(pdf_objs[f]) : Len(pdf_objs[f][i][2]) >= 2

\* ------------------------------------------------------------------------
\* C11
\* ------------------------------------------------------------------------

\* 1-indexed number of the line that closed the i-th object of file f
CloseOf(f, i) == pdf_objs[f][i][1] + 1

\* 1-indexed number of the line that opened the i-th object of file f: the
\* first line containing obj after the line that closed the object before
OpenOf(f, i) ==
    LET prev == IF i = 1 THEN 0 ELSE CloseOf(f, i - 1)
    IN  Least({k \in (prev + 1)..CloseOf(f, i) : Contains(B_obj, pdf[f][k])})

\* C11: the lines of every emitted object are the run of input lines from
\* the first line containing obj read while no object was open through the
\* first following line containing endobj; the run begins after the line
\* that closed the object before, so no line is in two objects; raw_content
\* is the newline-join of the run.
C11_RawContent ==
    \A f \in 1..2 : \A i \in 1..Len(pdf_objs[f]) :
        LET o == pdf_objs[f][i]
            first == OpenOf(f, i)
            last == CloseOf(f, i)
        IN  /\ i > 1 => first > CloseOf(f, i - 1)
            /\ o[2] = SubSeq(pdf[f], first, last)
            /\ Contains(B_endobj, pdf[f][last])
            /\ \A k \in first..(last - 1) : ~Contains(B_endobj, pdf[f][k])
            /\ \E x \in Triples(f, o[3]) : x[1] = o[1] /\ x[2] = Join(o[2])

\* an emitted object that absorbed a line containing obj after its first line
C11_Witness ==
    \E f \in 1..2 : \E i \in 1..Len(pdf_objs[f]) :
        LET o == pdf_objs[f][i]
        IN  /\ Len(o[2]) >= 3
            /\ Contains(B_obj, o[2][2])
            /\ ~Contains(B_endobj, o[2][2])

\* ------------------------------------------------------------------------
\* C12
\* ------------------------------------------------------------------------

\* the triple of the i-th object of file f
TripleOf(f, i) ==
    CHOOSE x \in Triples(f, pdf_objs[f][i][3]) : x[1] = pdf_objs[f][i][1]

HasStreamLine(body) == \E k \in 1..Len(body) : Contains(B_stream, body[k])

\* C12: has_stream of every emitted object is true if and only if one of the
\* object's own lines contains stream.
C12_HasStream ==
    \A f \in 1..2 : \A i \in 1..Len(pdf_objs[f]) :
        TripleOf(f, i)[3] <=> HasStreamLine(pdf_objs[f][i][2])

\* an object without a stream emitted after an object with a stream, or after
\* a line containing stream that was read outside any object
C12_Witness ==
    \E i \in 2..Len(pdf_objs[1]) :
        /\ TripleOf(1, i - 1)[3]
        /\ ~TripleOf(1, i)[3]
        /\ \E k \in 1..Len(pdf[1]) :
              /\ Contains(B_stream, pdf[1][k])
              /\ k < OpenOf(1, i - 1)

\* ------------------------------------------------------------------------
\* C13
\* ------------------------------------------------------------------------

Other(side) == 3 - side

\* the triples of type t that file side has and the other file lacks
Unmatched(side, t) == Triples(side, t) \ Triples(Other(side), t)

\* C13: at the exit of two files with equal type sets no type is left to
\* visit, and for every type and every side with an unmatched triple the
\* report holds that side's count line for the type and one line per
\* unmatched triple.
C13_Phase2Accumulates ==
    (pc = "exit" /\ SameTypeSets) =>
        /\ todo = {}
        /\ \A t \in DeclaredTypes(1) : \A side \in 1..2 :
              Unmatched(side, t) # {} =>
                  /\ \E i \in 1..Len(stdout) :
                        stdout[i] =
                            CountLine(side, Cardinality(Unmatched(side, t)), t)
                  /\ \A x \in Unmatched(side, t) :
                        \E i \in 1..Len(stdout) :
                            /\ stdout[i].kind \in {"obj", "stream"}
                            /\ stdout[i].side = side
                            /\ stdout[i].line_no = x[1]

\* a mismatch exit whose report holds count lines of two types
C13_Witness ==
    /\ MismatchOutcome
    /\ SameTypeSets
    /\ \E i, j \in 1..Len(stdout) :
          /\ stdout[i].kind = "count"
          /\ stdout[j].kind = "count"
          /\ stdout[i].types # stdout[j].types

\* ------------------------------------------------------------------------
\* C14
\* ------------------------------------------------------------------------

\* C14: whenever the run is in phase 3, the two files have the same number
\* of objects of every type, the objects paired by sorting on start_line and
\* zipping have equal start_lines, the flag is unset and nothing has been
\* printed; no run ever prints a line of phase 3.
C14_Phase3Redundant ==
    /\ pc = "phase3" =>
          /\ dont_match = FALSE
          /\ stdout = <<>>
          /\ \A t \in pdf1_obj_types :
                LET s1 == SortedByLine(Get(objs_by_type[1], t))
                    s2 == SortedByLine(Get(objs_by_type[2], t))
                IN  /\ Len(s1) = Len(s2)
                    /\ \A k \in 1..Len(s1) : s1[k][1] = s2[k][1]
    /\ \A i \in 1..Len(stdout) : stdout[i].kind # "nomatch"

\* phase 3 has visited every type, one of them with two objects in each file
C14_Witness ==
    /\ pc = "phase3"
    /\ todo = {}
    /\ \E t \in pdf1_obj_types : NumberOf(1, t) >= 2

\* ------------------------------------------------------------------------
\* C15
\* ------------------------------------------------------------------------

\* the types that the type-set lines printed about file side name
NamedFor(side) ==
    UNION {ToSet(stdout[i].types) :
             i \in {k \in 1..Len(stdout) :
                      stdout[k].kind = "types" /\ stdout[k].side = side}}

\* C15: once phase 1 has run, the types named for pdf1 are the declared
\* types of pdf1 that pdf2 lacks, the types named for pdf2 are the declared
\* types of pdf2 that pdf1 lacks, each side has at most one type-set line
\* and a line names no type twice; so no type of both files is named.
C15_Phase1Names ==
    pc \in {"phase2", "phase3", "exit"} =>
        /\ NamedFor(1) = DeclaredTypes(1) \ DeclaredTypes(2)
        /\ NamedFor(2) = DeclaredTypes(2) \ DeclaredTypes(1)
        /\ \A i, j \in 1..Len(stdout) :
              (/\ stdout[i].kind = "types"
               /\ stdout[j].kind = "types"
               /\ stdout[i].side = stdout[j].side) => i = j
        /\ \A i \in 1..Len(stdout) :
              stdout[i].kind = "types" =>
                  Len(stdout[i].types) = Cardinality(ToSet(stdout[i].types))

\* phase 1 has named a type of pdf2 that pdf1 lacks, and only that type,
\* while the files share another type
C15_Witness ==
    /\ MismatchOutcome
    /\ NamedFor(2) # {}
    /\ NamedFor(1) = {}
    /\ DeclaredTypes(1) \cap DeclaredTypes(2) # {}

\* ------------------------------------------------------------------------
\* C16
\* ------------------------------------------------------------------------

\* the whitespace-delimited tokens of a line: the non-empty pieces between
\* runs of whitespace
WsTokens(bs) == SelectSeq(Split(Strip(bs), SP), LAMBDA piece : piece # <<>>)

\* C16 (as claimed): the declared type of every emitted object is `_none_`
\* if and only if none of its lines contains /Type, and an object with a
\* /Type line has the second whitespace-delimited token of such a line,
\* without its leading `/`.
C16_Sentinel ==
    \A f \in 1..2 : \A i \in 1..Len(pdf_objs[f]) :
        LET o == pdf_objs[f][i]
        IN  /\ o[3] = NoneType <=> TypeLines(o[2]) = {}
            /\ TypeLines(o[2]) # {} =>
                  \E k \in TypeLines(o[2]) :
                      /\ Len(WsTokens(o[2][k])) >= 2
                      /\ o[3] = From1(WsTokens(o[2][k])[2])

\* ------------------------------------------------------------------------
\* C17
\* ------------------------------------------------------------------------

\* C17: a step that reads a line without obj while no object is open leaves
\* in_obj, cur_obj, cur_object_type, contains_stream and the emitted objects
\* as they were, and the scan goes on to the next line.
C17_OutsideLines ==
    [][(/\ pc = "scan"
        /\ line_no < Len(pdf[pdf_file])
        /\ ~in_obj
        /\ ~Contains(B_obj, CurLine))
          => (/\ pc' = "scan"
              /\ line_no' = line_no + 1
              /\ UNCHANGED <<in_obj, cur_obj, cur_object_type,
                             contains_stream, pdf_objs, objs_by_type>>)]_vars

\* the first line of pdf1, a /Type or stream line without obj, has been read
C17_Witness ==
    /\ pc = "scan"
    /\ pdf_file = 1
    /\ line_no = 1
    /\ ~in_obj
    /\ ~Contains(B_obj, pdf[1][1])
    /\ Contains(B_Type, pdf[1][1]) \/ Contains(B_stream, pdf[1][1])
    /\ cur_obj = <<>>
    /\ cur_object_type = <<>>
    /\ ~contains_stream

\* ------------------------------------------------------------------------
\* C18
\* ------------------------------------------------------------------------

\* how the run has ended: its exit status, 2 when it raised
EndStatus == IF pc = "raised" THEN 2 ELSE exit_status

\* a printed line with the order of the joined type names forgotten
LineKey(l) == [l EXCEPT !.types = ToSet(l.types)]

Keys(out) == {LineKey(out[i]) : i \in 1..Len(out)}

\* the phase a printed line belongs to, the final message last
PhaseOf(l) ==
    CASE l.kind = "types" -> 1
      [] l.kind \in {"count", "obj", "stream"} -> 2
      [] l.kind = "nomatch" -> 3
      [] OTHER -> 4

\* C18 (as claimed): the second of two runs on the same files ends as the
\* first and has printed the same sequence of lines.
C18_Original ==
    (run = 2 /\ Terminated) =>
        /\ EndStatus = first_status
        /\ stdout = first_stdout

\* C18 (amended): the second of two runs on the same files ends as the first
\* and has printed as many lines, the same ones up to their order and the
\* order of the type names in a line, in phase order.
C18_SameVerdictSameLines ==
    (run = 2 /\ Terminated) =>
        /\ EndStatus = first_status
        /\ Len(stdout) = Len(first_stdout)
        /\ Keys(stdout) = Keys(first_stdout)
        /\ \A i, j \in 1..Len(stdout) :
              i < j => PhaseOf(stdout[i]) <= PhaseOf(stdout[j])

\* the second run has ended like the first with the lines in another order
C18_Witness ==
    /\ run = 2
    /\ MismatchOutcome
    /\ first_status = 1
    /\ stdout # first_stdout

\* ------------------------------------------------------------------------
\* C19
\* ------------------------------------------------------------------------

\* the number of lines of file f the loop of line 41 has gone through
Scanned(f) ==
    IF pc \in {"scan", "raised"}
        THEN IF f < pdf_file THEN Len(pdf[f])
             ELSE IF f = pdf_file THEN line_no
             ELSE 0
        ELSE Len(pdf[f])

\* 1-indexed numbers of the lines containing endobj among the first n of f
EndobjLines(f, n) == {k \in 1..n : Contains(B_endobj, pdf[f][k])}

\* no object is open when line k of file f is read
NoneOpenAt(f, k) ==
    \A j \in 1..(k - 1) :
        Contains(B_obj, pdf[f][j]) =>
            \E m \in j..(k - 1) : Contains(B_endobj, pdf[f][m])

\* C19: the objects emitted for a file are as many as the lines containing
\* endobj the scan has read from it, one closed by each such line; a line
\* containing endobj read while no object is open is emitted as a one-line
\* object; lines after the last endobj line are in no emitted object.
C19_OnePerEndobj ==
    \A f \in 1..2 :
        /\ Len(pdf_objs[f]) = Cardinality(EndobjLines(f, Scanned(f)))
        /\ {CloseOf(f, i) : i \in 1..Len(pdf_objs[f])}
              = EndobjLines(f, Scanned(f))
        /\ \A i \in 1..Len(pdf_objs[f]) :
              NoneOpenAt(f, CloseOf(f, i)) =>
                  pdf_objs[f][i][2] = <<pdf[f][CloseOf(f, i)]>>

\* the scans are over; the first line of file 1 contains endobj and was
\* emitted as a one-line object, and an object opened after it is not emitted
C19_Witness ==
    /\ pc = "phase1"
    /\ Len(pdf_objs[1]) = 1
    /\ CloseOf(1, 1) = 1
    /\ pdf_objs[1][1][2] = <<pdf[1][1]>>
    /\ \E k \in 2..Len(pdf[1]) : Contains(B_obj, pdf[1][k])

\* ------------------------------------------------------------------------
\* C20
\* ------------------------------------------------------------------------

\* C20: when __main__, run on two different input paths, calls compare_pdfs,
\* the two arguments are different paths, the file at the first is the
\* uncompressed output made from pdf1 and the file at the second the
\* uncompressed output made from pdf2.
C20_TwoOutputs ==
    (main.pc = "called" /\ main.pdf1 # main.pdf2) =>
        /\ main.pdf1_uncompressed # main.pdf2_uncompressed
        /\ main.fs[main.pdf1_uncompressed].from = main.pdf1
        /\ main.fs[main.pdf2_uncompressed].from = main.pdf2

\* the program has ended with status 0 on two different input paths that
\* have one base name and whose uncompressed forms differ
C20_Collision ==
    /\ main.pc = "done"
    /\ main.pdf1 # main.pdf2
    /\ Basename(main.pdf1) = Basename(main.pdf2)
    /\ main.fs[main.pdf1].lines # main.fs[main.pdf2].lines
    /\ main.status = 0

====
